---------------------------- MODULE Spec2Model ----------------------------
(* A model of uroboros: the /proc/net socket-table parser of package host   *)
(* (host/network.go) and the start-up and event loop of the command         *)
(* (main.go: searchTarget and main).                                         *)
(*                                                                          *)
(* Text is modelled as sequences of one-character strings, so that          *)
(* strings.Fields, strings.Split, str.Trim and the hexadecimal and decimal  *)
(* conversions are computed the way the code computes them.                 *)
EXTENDS Integers, Sequences, FiniteSets, TLC

VARIABLES
    procNet,      \* the files of ProcFS/net: family -> File(lines) or NoFile
    proto,        \* argument of parseNetworkForProtocol
    scanned,      \* result of parseNetworkForProtocol
    inodes,       \* result of parseNetworkInodes, with the families it opened
    line,         \* argument of parseIP
    entry,        \* result of parseIP
    pc,           \* where main is: flags, searched, updateTabs, collecting,
                  \* select, closed, exited, panicked
    targetName,   \* -search
    TargetPID,    \* host.TargetPID, set by -pid and by searchTarget
    procs,        \* what procfs.AllProcs returns
    allProcsFails,\* procfs.AllProcs returns an error
    printed,      \* the process IDs searchTarget has listed
    exitCode,     \* the argument of os.Exit, NoExit before
    recordFile,   \* -record
    replayFile,   \* -replay
    recorder,     \* the recorder of the session, NoRecorder for nil
    player,       \* the player of the session, NoPlayer for nil
    session,      \* the session file of this run: written by the recorder or
                  \* read by the player
    recorded,     \* the snapshots handed to the recorder, in order
    replays,      \* per replay of the file: what next() returned, and the calls
    checksPaused, \* updateTabs returns at once when paused is set
    paused,       \* the flag "<Space>" and "p" toggle
    ticker,       \* ticks waiting in the ticker's channel
    missed,       \* a tick was dropped since the last one was received
    caller,       \* the statement of main that called updateTabs
    ev,           \* the event the select loop received last
    wasPaused,    \* paused, when that event was received
    collected,    \* collection cycles completed since that event was received
    inFlight,     \* collection cycles that have begun and not ended
    primed        \* calls of updateTabs made by the priming loop

netVars == <<procNet, proto, scanned, inodes, line, entry>>
searchVars == <<targetName, TargetPID, procs, allProcsFails, printed>>
sessionVars == <<recordFile, replayFile, recorder, player, session, recorded, replays>>
loopVars == <<checksPaused, paused, ticker, missed, caller, ev, wasPaused,
              collected, inFlight, primed>>

mainVars == <<pc, exitCode, searchVars, sessionVars, loopVars>>

vars == <<netVars, mainVars>>

\* a call that has not been made
Pending == [kind |-> "none"]

\* a file os.Open fails for, and a file of the given lines
NoFile == [exists |-> FALSE, lines |-> <<>>]
File(ls) == [exists |-> TRUE, lines |-> ls]

-----------------------------------------------------------------------------
(* host/network.go: constants and tables                                    *)

TCP_ESTABLISHED == 1
TCP_SYN_SENT == 2
TCP_SYN_RECV == 3
TCP_FIN_WAIT1 == 4
TCP_FIN_WAIT2 == 5
TCP_TIME_WAIT == 6
TCP_CLOSE == 7
TCP_CLOSE_WAIT == 8
TCP_LAST_ACK == 9
TCP_LISTEN == 10
TCP_CLOSING == 11
TCP_NEW_SYN_RECV == 12

sockStates ==
    [c \in TCP_ESTABLISHED..TCP_NEW_SYN_RECV |->
        CASE c = TCP_ESTABLISHED -> "ESTABLISHED"
          [] c = TCP_SYN_SENT -> "SYN_SENT"
          [] c = TCP_SYN_RECV -> "SYN_RECV"
          [] c = TCP_FIN_WAIT1 -> "FIN_WAIT1"
          [] c = TCP_FIN_WAIT2 -> "FIN_WAIT2"
          [] c = TCP_TIME_WAIT -> "TIME_WAIT"
          [] c = TCP_CLOSE -> "CLOSE"
          [] c = TCP_CLOSE_WAIT -> "CLOSE_WAIT"
          [] c = TCP_LAST_ACK -> "LAST_ACK"
          [] c = TCP_LISTEN -> "LISTENING"
          [] c = TCP_CLOSING -> "CLOSING"
          [] c = TCP_NEW_SYN_RECV -> "NEW_SYN_RECV"]

sockTypes ==
    [t \in {1, 2, 5} |->
        CASE t = 1 -> "SOCK_STREAM"
          [] t = 2 -> "SOCK_DGRAM"
          [] t = 5 -> "SOCK_SEQPACKET"]

\* m[k] of a Go map[uint]string: the zero value "" for a key that is absent
MapGet(m, k) == IF k \in DOMAIN m THEN m[k] ELSE ""

protocols == <<"tcp", "tcp6", "udp", "udp6", "unix", "netlink">>

\* the zero value of NetworkEntry; a nil net.IP is the empty sequence
ZeroEntry ==
    [Proto |-> "", Type |-> 0, TypeString |-> "", Groups |-> <<>>,
     Path |-> <<>>, State |-> 0, StateString |-> "", SrcIP |-> <<>>,
     SrcPort |-> 0, DstIP |-> <<>>, DstPort |-> 0, UserId |-> 0, INode |-> 0]

-----------------------------------------------------------------------------
(* Text helpers                                                             *)

SeqsUpTo(S, n) == UNION {[1..k -> S] : k \in 0..n}

IsSpace(c) == c \in {" ", "\t", "\r", "\n"}

\* strings.Fields: the maximal runs of non-space characters, in order
RECURSIVE FieldsFrom(_, _, _, _)
FieldsFrom(s, i, cur, acc) ==
    IF i > Len(s)
    THEN IF cur = <<>> THEN acc ELSE Append(acc, cur)
    ELSE IF IsSpace(s[i])
         THEN FieldsFrom(s, i + 1, <<>>, IF cur = <<>> THEN acc ELSE Append(acc, cur))
         ELSE FieldsFrom(s, i + 1, Append(cur, s[i]), acc)

Fields(s) == FieldsFrom(s, 1, <<>>, <<>>)

\* strings.Split(s, ":"): the pieces between the separators, empty ones kept
RECURSIVE SplitFrom(_, _, _, _)
SplitFrom(s, i, cur, acc) ==
    IF i > Len(s)
    THEN Append(acc, cur)
    ELSE IF s[i] = ":"
         THEN SplitFrom(s, i + 1, <<>>, Append(acc, cur))
         ELSE SplitFrom(s, i + 1, Append(cur, s[i]), acc)

Split(s) == SplitFrom(s, 1, <<>>, <<>>)

\* str.Trim: leading and trailing white space removed
RECURSIVE TrimLeft(_)
TrimLeft(s) == IF s # <<>> /\ IsSpace(Head(s)) THEN TrimLeft(Tail(s)) ELSE s

RECURSIVE TrimRight(_)
TrimRight(s) ==
    IF s # <<>> /\ IsSpace(s[Len(s)]) THEN TrimRight(SubSeq(s, 1, Len(s) - 1)) ELSE s

Trim(s) == TrimRight(TrimLeft(s))

HexDigits == <<"0", "1", "2", "3", "4", "5", "6", "7", "8", "9",
               "A", "B", "C", "D", "E", "F">>

DigitVal(c) == (CHOOSE k \in 1..16 : HexDigits[k] = c) - 1

\* hexToInt: the value of a hexadecimal numeral, most significant digit first
RECURSIVE hexToIntFrom(_, _, _)
hexToIntFrom(s, i, n) ==
    IF i > Len(s) THEN n ELSE hexToIntFrom(s, i + 1, n * 16 + DigitVal(s[i]))

hexToInt(s) == hexToIntFrom(s, 1, 0)

\* decToInt: the value of a decimal numeral
RECURSIVE decToIntFrom(_, _, _)
decToIntFrom(s, i, n) ==
    IF i > Len(s) THEN n ELSE decToIntFrom(s, i + 1, n * 10 + DigitVal(s[i]))

decToInt(s) == decToIntFrom(s, 1, 0)

\* hexToIP: the bytes of the packed address, in reversed order
hexToIP(s) ==
    LET n == Len(s) \div 2
    IN  [k \in 1..n |->
            LET j == 2 * (n - k) + 1
            IN  DigitVal(s[j]) * 16 + DigitVal(s[j + 1])]

-----------------------------------------------------------------------------
(* host/network.go: the decoders                                            *)

ParseError(filename, got, l) ==
    [msg |-> "could not parse netstat line", file |-> filename, got |-> got, line |-> l]

IndexError == [msg |-> "index out of range"]

Decoded(e) == [kind |-> "ok", entry |-> e]
Failed(e) == [kind |-> "err", err |-> e]
Panicked(e) == [kind |-> "panic", err |-> e]

\* parseIP with the local and the remote column exchanged
parseIPSwapped(filename, l, protocol) ==
    LET fields == Fields(l)
    IN  IF Len(fields) < 10
        THEN Failed(ParseError(filename, Len(fields), l))
        ELSE LET local == Split(fields[3])
                 remote == Split(fields[2])
                 sockState == hexToInt(fields[4])
             IN  IF Len(local) < 2 \/ Len(remote) < 2
                 THEN Panicked(IndexError)
                 ELSE Decoded([ZeroEntry EXCEPT
                        !.Proto = protocol,
                        !.SrcIP = hexToIP(local[1]),
                        !.SrcPort = hexToInt(local[2]),
                        !.DstIP = hexToIP(remote[1]),
                        !.DstPort = hexToInt(remote[2]),
                        !.State = sockState,
                        !.StateString = MapGet(sockStates, sockState),
                        !.UserId = decToInt(fields[8]),
                        !.INode = decToInt(fields[10])])

\* parseIP; Go's fields[k] is fields[k + 1] here, and local[1] of a column
\* without a colon is an index out of range
parseIP(filename, l, protocol) ==
    LET fields == Fields(l)
    IN  IF Len(fields) < 10
        THEN Failed(ParseError(filename, Len(fields), l))
        ELSE LET local == Split(fields[2])
                 remote == Split(fields[3])
                 sockState == hexToInt(fields[4])
             IN  IF Len(local) < 2 \/ Len(remote) < 2
                 THEN Panicked(IndexError)
                 ELSE Decoded([ZeroEntry EXCEPT
                        !.Proto = protocol,
                        !.SrcIP = hexToIP(local[1]),
                        !.SrcPort = hexToInt(local[2]),
                        !.DstIP = hexToIP(remote[1]),
                        !.DstPort = hexToInt(remote[2]),
                        !.State = sockState,
                        !.StateString = MapGet(sockStates, sockState),
                        !.UserId = decToInt(fields[8]),
                        !.INode = decToInt(fields[10])])

parseUnix(filename, l, protocol) ==
    LET fields == Fields(l)
        num == Len(fields)
    IN  IF num < 7
        THEN Failed(ParseError(filename, 7, l))
        ELSE LET sockType == hexToInt(fields[5])
                 sockState == hexToInt(fields[6])
                 path == IF num > 7 THEN fields[8] ELSE <<>>
             IN  Decoded([ZeroEntry EXCEPT
                    !.Proto = protocol,
                    !.Type = sockType,
                    !.TypeString = MapGet(sockTypes, sockType),
                    !.State = sockState,
                    !.StateString = MapGet(sockStates, sockState),
                    !.INode = decToInt(fields[7]),
                    !.Path = path])

parseNetlink(filename, l, protocol) ==
    LET fields == Fields(l)
        num == Len(fields)
    IN  IF num < 10
        THEN Failed(ParseError(filename, 7, l))
        ELSE Decoded([ZeroEntry EXCEPT
                !.Proto = protocol,
                !.Groups = fields[4],
                !.INode = decToInt(fields[10])])

-----------------------------------------------------------------------------
(* Table lines the decoders are run on                                      *)

\* "sl local rem st inode"
header ==
    <<"s", "l", " ", "l", "o", "c", "a", "l", " ", "r", "e", "m", " ", "s",
      "t", " ", "i", "n", "o", "d", "e">>

\* "  0: 0100007F:13AD 00000000:0000 0A 0:0 0:0 0 1000 0 5"
ipListen ==
    <<" ", " ", "0", ":", " ", "0", "1", "0", "0", "0", "0", "7", "F", ":",
      "1", "3", "A", "D", " ", "0", "0", "0", "0", "0", "0", "0", "0", ":",
      "0", "0", "0", "0", " ", "0", "A", " ", "0", ":", "0", " ", "0", ":",
      "0", " ", "0", " ", "1", "0", "0", "0", " ", "0", " ", "5">>

\* "  1: 0100007F:0050 0200007F:01BB 01 0:0 0:0 0 0 0 5 1 0"
ipEstab ==
    <<" ", " ", "1", ":", " ", "0", "1", "0", "0", "0", "0", "7", "F", ":",
      "0", "0", "5", "0", " ", "0", "2", "0", "0", "0", "0", "7", "F", ":",
      "0", "1", "B", "B", " ", "0", "1", " ", "0", ":", "0", " ", "0", ":",
      "0", " ", "0", " ", "0", " ", "0", " ", "5", " ", "1", " ", "0">>

\* "  2: 00000000:0035 00000000:0000 0D 0:0 0:0 0 101 0 6"
ipUnknown ==
    <<" ", " ", "2", ":", " ", "0", "0", "0", "0", "0", "0", "0", "0", ":",
      "0", "0", "3", "5", " ", "0", "0", "0", "0", "0", "0", "0", "0", ":",
      "0", "0", "0", "0", " ", "0", "D", " ", "0", ":", "0", " ", "0", ":",
      "0", " ", "0", " ", "1", "0", "1", " ", "0", " ", "6">>

\* "  3: 0100007F:13AD 00000000:0000 0A 0:0 0:0 0 1000 0"
ipShort ==
    <<" ", " ", "3", ":", " ", "0", "1", "0", "0", "0", "0", "7", "F", ":",
      "1", "3", "A", "D", " ", "0", "0", "0", "0", "0", "0", "0", "0", ":",
      "0", "0", "0", "0", " ", "0", "A", " ", "0", ":", "0", " ", "0", ":",
      "0", " ", "0", " ", "1", "0", "0", "0", " ", "0">>

\* "  4: 0100007F 00000000:0000 0A 0:0 0:0 0 1000 0 7"
ipNoColon ==
    <<" ", " ", "4", ":", " ", "0", "1", "0", "0", "0", "0", "7", "F", " ",
      "0", "0", "0", "0", "0", "0", "0", "0", ":", "0", "0", "0", "0", " ",
      "0", "A", " ", "0", ":", "0", " ", "0", ":", "0", " ", "0", " ", "1",
      "0", "0", "0", " ", "0", " ", "7">>

\* "0: 2 0 10000 0001 01 5 /run/x"
unixPath ==
    <<"0", ":", " ", "2", " ", "0", " ", "1", "0", "0", "0", "0", " ", "0",
      "0", "0", "1", " ", "0", "1", " ", "5", " ", "/", "r", "u", "n", "/",
      "x">>

\* "0: 2 0 10000 0002 01 5"
unixNoPath ==
    <<"0", ":", " ", "2", " ", "0", " ", "1", "0", "0", "0", "0", " ", "0",
      "0", "0", "2", " ", "0", "1", " ", "5">>

\* "0: 3 0 0 0005 03 6 @a b"
unixSeq ==
    <<"0", ":", " ", "3", " ", "0", " ", "0", " ", "0", "0", "0", "5", " ",
      "0", "3", " ", "6", " ", "@", "a", " ", "b">>

\* "0: 2 0 10000 0001 01"
unixShort ==
    <<"0", ":", " ", "2", " ", "0", " ", "1", "0", "0", "0", "0", " ", "0",
      "0", "0", "1", " ", "0", "1">>

\* "0 0 2014 00000110 0 0 0 2 0 5"
nlA ==
    <<"0", " ", "0", " ", "2", "0", "1", "4", " ", "0", "0", "0", "0", "0",
      "1", "1", "0", " ", "0", " ", "0", " ", "0", " ", "2", " ", "0", " ",
      "5">>

\* "0 0 1 00000011 0 0 0 2 0 5 "
nlB ==
    <<"0", " ", "0", " ", "1", " ", "0", "0", "0", "0", "0", "0", "1", "1",
      " ", "0", " ", "0", " ", "0", " ", "2", " ", "0", " ", "5", " ">>

\* "0 15 0 00000000 0 0 0 2 0 6"
nlC ==
    <<"0", " ", "1", "5", " ", "0", " ", "0", "0", "0", "0", "0", "0", "0",
      "0", " ", "0", " ", "0", " ", "0", " ", "2", " ", "0", " ", "6">>

\* "0 0 2014 00000110 0 0 0 2 0"
nlShort ==
    <<"0", " ", "0", " ", "2", "0", "1", "4", " ", "0", "0", "0", "0", "0",
      "1", "1", "0", " ", "0", " ", "0", " ", "0", " ", "2", " ", "0">>

\* "  "
blank ==
    <<" ", " ">>

-----------------------------------------------------------------------------
(* host/network.go: the table scanner and the inode index                   *)

\* fmt.Sprintf("%s/net/%s", ProcFS, proto)
Filename(p) == <<"net", p>>

\* the if / else if / else of parseNetworkForProtocol's loop body
Decoder(p, filename, l) ==
    IF p = "unix" THEN parseUnix(filename, l, p)
    ELSE IF p = "netlink" THEN parseNetlink(filename, l, p)
    ELSE parseIP(filename, l, p)

\* the scanner loop that keeps the first line
RECURSIVE ScanKeepingFirst(_, _, _, _)
ScanKeepingFirst(p, file, k, entries) ==
    IF k > Len(file)
    THEN [kind |-> "ok", entries |-> entries]
    ELSE LET r == Decoder(p, Filename(p), Trim(file[k]))
         IN  IF r.kind # "ok"
             THEN Panicked(r.err)
             ELSE ScanKeepingFirst(p, file, k + 1, Append(entries, r.entry))

\* the for loop of parseNetworkForProtocol from line number k (1 is Go's 0):
\* the first line is skipped, an error of the decoder is a panic
RECURSIVE Scan(_, _, _, _)
Scan(p, file, k, entries) ==
    IF k > Len(file)
    THEN [kind |-> "ok", entries |-> entries]
    ELSE IF k = 1
         THEN Scan(p, file, k + 1, entries)
         ELSE LET r == Decoder(p, Filename(p), Trim(file[k]))
              IN  IF r.kind # "ok"
                  THEN Panicked(r.err)
                  ELSE Scan(p, file, k + 1, Append(entries, r.entry))

OpenError(p) == [op |-> "open", path |-> Filename(p)]

parseNetworkForProtocol(fs, p) ==
    IF ~fs[p].exists
    THEN Failed(OpenError(p))
    ELSE Scan(p, fs[p].lines, 1, <<>>)

\* the insertion that keeps the record already held for the inode
MapPutIfAbsent(m, e) ==
    [k \in DOMAIN m \cup {e.INode} |-> IF k \in DOMAIN m THEN m[k] ELSE e]

\* byInode[entry.INode] = entry
MapPut(m, e) ==
    [k \in DOMAIN m \cup {e.INode} |-> IF k = e.INode THEN e ELSE m[k]]

\* for _, entry := range entries { byInode[entry.INode] = entry }
RECURSIVE PutAll(_, _, _)
PutAll(m, entries, k) ==
    IF k > Len(entries) THEN m ELSE PutAll(MapPut(m, entries[k]), entries, k + 1)

EmptyMap == [k \in {} |-> ZeroEntry]

\* the loop of parseNetworkInodes that goes on after a family's error
RECURSIVE InodesSkippingErrors(_, _, _, _)
InodesSkippingErrors(fs, i, byInode, opened) ==
    IF i > Len(protocols)
    THEN [kind |-> "ok", byInode |-> byInode, opened |-> opened]
    ELSE LET r == parseNetworkForProtocol(fs, protocols[i])
             op == Append(opened, protocols[i])
         IN  IF r.kind = "err"
             THEN InodesSkippingErrors(fs, i + 1, byInode, op)
             ELSE IF r.kind = "panic"
             THEN [kind |-> "panic", err |-> r.err, opened |-> op]
             ELSE InodesSkippingErrors(fs, i + 1, PutAll(byInode, r.entries, 1), op)

\* the loop of parseNetworkInodes from family i; opened lists the families
\* parseNetworkForProtocol was called for. A nil index is the absent field.
RECURSIVE InodesFrom(_, _, _, _)
InodesFrom(fs, i, byInode, opened) ==
    IF i > Len(protocols)
    THEN [kind |-> "ok", byInode |-> byInode, opened |-> opened]
    ELSE LET r == parseNetworkForProtocol(fs, protocols[i])
             op == Append(opened, protocols[i])
         IN  IF r.kind = "err"
             THEN [kind |-> "err", err |-> r.err, opened |-> op]
             ELSE IF r.kind = "panic"
             THEN [kind |-> "panic", err |-> r.err, opened |-> op]
             ELSE InodesFrom(fs, i + 1, PutAll(byInode, r.entries, 1), op)

parseNetworkInodes(fs) == InodesFrom(fs, 1, EmptyMap, <<>>)

-----------------------------------------------------------------------------
(* record: the session recorder and player                                  *)

MaxSamples == 3    \* snapshots appended to one session file
MaxReplays == 2    \* times one session file is replayed

\* the snapshots a collection cycle can produce
Snapshots == {"a", "b"}

\* no session file on disk, and a file that has just been created
NoSession == [exists |-> FALSE, closed |-> FALSE, entries |-> <<>>]
NewSession == [exists |-> TRUE, closed |-> FALSE, entries |-> <<>>]

\* a nil *record.Recorder and a nil *record.Player
NoRecorder == [active |-> FALSE]
NoPlayer == [active |-> FALSE, entries |-> <<>>, pos |-> 0, done |-> FALSE]

\* Recorder.append that puts the entry in front
RecorderPrepend(f, s) ==
    [f EXCEPT !.entries = <<[ts |-> Len(f.entries) + 1, snap |-> s]>> \o f.entries]

\* Recorder.append(timestamp, snapshot): one entry more at the end of the file
RecorderAppend(f, s) ==
    [f EXCEPT !.entries = Append(f.entries, [ts |-> Len(f.entries) + 1, snap |-> s])]

\* Recorder.close(): the file becomes valid for replay
RecorderClose(f) == [f EXCEPT !.closed = TRUE]

\* record.Load fails for a file that is absent or was never closed
Loadable(f) == f.exists /\ f.closed

\* record.Load(path): a player with a cursor before the first entry
PlayerLoad(f) == [active |-> TRUE, entries |-> f.entries, pos |-> 0, done |-> FALSE]

\* Player.next(): the entry under the cursor, or the end of the session
PlayerAtEnd(p) == p.pos >= Len(p.entries)
PlayerCurrent(p) == p.entries[p.pos + 1].snap
PlayerNext(p) ==
    IF PlayerAtEnd(p) THEN [p EXCEPT !.done = TRUE] ELSE [p EXCEPT !.pos = p.pos + 1]

-----------------------------------------------------------------------------
(* main.go: searchTarget                                                    *)

MaxProcs == 3   \* processes AllProcs returns
MaxPID == 3     \* process IDs in use

PIDs == 1..MaxPID

\* names a process reports: none (Comm fails), "sh", "ssh"
Comms == {<<>>, <<"s", "h">>, <<"s", "s", "h">>}

\* values of -search: not given, "sh", "ssh", "x"
TargetNames == {<<>>, <<"s", "h">>, <<"s", "s", "h">>, <<"x">>}

\* values of -pid: a negative one, the default 0, a process ID
PidFlags == {-1, 0} \cup PIDs

\* what procfs.AllProcs can return: processes with distinct IDs, in any order
ProcLists ==
    {ps \in SeqsUpTo([PID : PIDs, comm : Comms], MaxProcs) :
        \A i, j \in 1..Len(ps) : i # j => ps[i].PID # ps[j].PID}

\* strings.Index(s, t) != -1
Contains(s, t) ==
    \E i \in 0..(Len(s) - Len(t)) : SubSeq(s, i + 1, i + Len(t)) = t

\* matchPIDs: the IDs of the processes whose name contains name, in list order
MatchPIDs(ps, name) ==
    LET hit(p) == p.comm # <<>> /\ Contains(p.comm, name)
        matched == SelectSeq(ps, hit)
    IN  [k \in 1..Len(matched) |-> matched[k].PID]

\* sort.Ints left out
Unsorted(s) == s

\* sort.Ints: the same integers in ascending order
RECURSIVE SortInts(_)
SortInts(s) ==
    IF s = <<>> THEN <<>>
    ELSE LET m == CHOOSE k \in 1..Len(s) : \A j \in 1..Len(s) : s[k] <= s[j]
         IN  <<s[m]>> \o SortInts(SubSeq(s, 1, m - 1) \o SubSeq(s, m + 1, Len(s)))

NoExit == -1    \* os.Exit has not been called

-----------------------------------------------------------------------------
(* main.go: main                                                            *)

\* the events ui.PollEvents delivers; "x" stands for every other key
Events == {"q", "<C-c>", "<Resize>", "<Left>", "<Right>", "<Space>", "p", "f", "x"}

\* what searchTarget leaves alone
SearchFrame == UNCHANGED <<targetName, procs, allProcsFails, loopVars, sessionVars, netVars>>

\* searchTarget (main.go:36-77), called first by main: procfs.AllProcs fails
SearchPanics ==
    /\ pc = "flags"
    /\ targetName # <<>>
    /\ allProcsFails
    /\ pc' = "panicked"
    /\ UNCHANGED <<TargetPID, printed, exitCode>>
    /\ SearchFrame

SearchNoMatch ==
    /\ pc = "flags"
    /\ targetName # <<>>
    /\ ~allProcsFails
    /\ Len(MatchPIDs(procs, targetName)) = 0
    /\ exitCode' = 1
    /\ pc' = "exited"
    /\ UNCHANGED <<TargetPID, printed>>
    /\ SearchFrame

SearchManyMatches ==
    /\ pc = "flags"
    /\ targetName # <<>>
    /\ ~allProcsFails
    /\ Len(MatchPIDs(procs, targetName)) > 1
    /\ printed' = SortInts(MatchPIDs(procs, targetName))
    /\ exitCode' = 0
    /\ pc' = "exited"
    /\ UNCHANGED TargetPID
    /\ SearchFrame

SearchOneMatch ==
    /\ pc = "flags"
    /\ targetName # <<>>
    /\ ~allProcsFails
    /\ Len(MatchPIDs(procs, targetName)) = 1
    /\ TargetPID' = MatchPIDs(procs, targetName)[1]
    /\ pc' = "searched"
    /\ UNCHANGED <<printed, exitCode>>
    /\ SearchFrame

\* no -search: a -pid that is not positive is replaced by os.Getpid()
SearchNotAsked ==
    /\ pc = "flags"
    /\ targetName = <<>>
    /\ \E self \in PIDs :
          TargetPID' = IF TargetPID <= 0 THEN self ELSE TargetPID
    /\ pc' = "searched"
    /\ UNCHANGED <<printed, exitCode>>
    /\ SearchFrame

searchTarget ==
    \/ SearchPanics
    \/ SearchNoMatch
    \/ SearchManyMatches
    \/ SearchOneMatch
    \/ SearchNotAsked

\* record.New or record.Load returns an error
SourceFails(fail) ==
    IF recordFile # "" THEN fail = "source"
    ELSE IF replayFile # "" THEN fail = "source" \/ ~Loadable(session)
    ELSE FALSE

\* main.go:93-103 with "if" in place of "else if"
CreateSourcesBoth ==
    /\ recorder' = IF recordFile # "" THEN [active |-> TRUE] ELSE recorder
    /\ session' = IF recordFile # "" THEN NewSession ELSE session
    /\ player' = IF replayFile # "" /\ Loadable(session)
                 THEN PlayerLoad(session) ELSE player

\* main.go:93-103: with -record the recorder is created, otherwise with
\* -replay the player is loaded
CreateSources ==
    IF recordFile # ""
    THEN /\ recorder' = [active |-> TRUE]
         /\ session' = NewSession
         /\ UNCHANGED player
    ELSE IF replayFile # ""
    THEN /\ player' = PlayerLoad(session)
         /\ UNCHANGED <<recorder, session>>
    ELSE UNCHANGED <<recorder, player, session>>

\* main.go:93-113: the data source, then setupUI, then the first call of the
\* priming loop; an error of record.New, record.Load or setupUI is os.Exit(1)
Startup ==
    /\ pc = "searched"
    /\ \E fail \in {"no", "source", "ui"} :
          IF SourceFails(fail)
          THEN /\ exitCode' = 1
               /\ pc' = "exited"
               /\ UNCHANGED <<recorder, player, session>>
          ELSE /\ CreateSources
               /\ IF fail = "ui"
                  THEN exitCode' = 1 /\ pc' = "exited"
                  ELSE pc' = "updateTabs" /\ UNCHANGED exitCode
    /\ caller' = "prime"
    /\ UNCHANGED <<recordFile, replayFile, replays, recorded>>
    /\ UNCHANGED <<searchVars, netVars>>
    /\ UNCHANGED <<checksPaused, paused, ticker, missed, ev, wasPaused, collected,
                   inFlight, primed>>

\* the statements of main that follow a call of updateTabs: the priming loop
\* of main.go:111-115, or the end of the select case and updateUI
AfterUpdateTabs ==
    IF caller = "prime"
    THEN /\ primed' = primed + 1
         /\ pc' = IF primed + 1 < 2 THEN "updateTabs" ELSE "select"
    ELSE /\ pc' = "select"
         /\ UNCHANGED primed

\* updateTabs returns at once: it looks at paused, and the session is paused
UpdateTabsPaused ==
    /\ pc = "updateTabs"
    /\ checksPaused /\ paused
    /\ AfterUpdateTabs
    /\ UNCHANGED <<caller, checksPaused, paused, ticker, missed, ev, wasPaused,
                   collected, inFlight>>
    /\ UNCHANGED <<exitCode, searchVars, sessionVars, netVars>>

\* updateTabs starts a collection cycle
UpdateTabsBegin ==
    /\ pc = "updateTabs"
    /\ ~(checksPaused /\ paused)
    /\ inFlight' = inFlight + 1
    /\ pc' = "collecting"
    /\ UNCHANGED <<caller, checksPaused, paused, ticker, missed, ev, wasPaused,
                   collected, primed>>
    /\ UNCHANGED <<exitCode, searchVars, sessionVars, netVars>>

\* the collection cycle ends: the snapshot comes from the player when one is
\* active and from the host otherwise, a live snapshot is appended to the
\* recorder when one is active, and updateTabs returns
UpdateTabsEnd ==
    /\ pc = "collecting"
    /\ IF player.active
       THEN /\ player' = PlayerNext(player)
            /\ UNCHANGED <<recorder, session, recorded>>
       ELSE /\ \E s \in Snapshots :
                  IF recorder.active
                  THEN /\ Len(session.entries) < MaxSamples
                       /\ session' = RecorderAppend(session, s)
                       /\ recorded' = Append(recorded, s)
                  ELSE UNCHANGED <<session, recorded>>
            /\ UNCHANGED <<recorder, player>>
    /\ inFlight' = inFlight - 1
    /\ collected' = collected + 1
    /\ AfterUpdateTabs
    /\ UNCHANGED <<caller, checksPaused, paused, ticker, missed, ev, wasPaused>>
    /\ UNCHANGED <<exitCode, recordFile, replayFile, replays>>
    /\ UNCHANGED <<searchVars, netVars>>

\* the ticker of main.go:120 exists once the priming loop is over
Ticking == pc = "select" \/ (pc \in {"updateTabs", "collecting"} /\ caller # "prime")

\* a ticker whose channel keeps up to three ticks
TickQueued ==
    /\ Ticking
    /\ ticker < 3
    /\ ticker' = ticker + 1
    /\ UNCHANGED missed
    /\ UNCHANGED <<pc, caller, checksPaused, paused, ev, wasPaused, collected,
                   inFlight, primed>>
    /\ UNCHANGED <<exitCode, searchVars, sessionVars, netVars>>

\* the period of time.NewTicker elapses: the tick is put in the channel of
\* capacity one, or dropped when a tick is waiting there already
Tick ==
    /\ Ticking
    /\ IF ticker < 1
       THEN ticker' = ticker + 1 /\ UNCHANGED missed
       ELSE missed' = TRUE /\ UNCHANGED ticker
    /\ UNCHANGED <<pc, caller, checksPaused, paused, ev, wasPaused, collected,
                   inFlight, primed>>
    /\ UNCHANGED <<exitCode, searchVars, sessionVars, netVars>>

\* case <-ticker: updateTabs()
RecvTick ==
    /\ pc = "select"
    /\ ticker > 0
    /\ ticker' = ticker - 1
    /\ missed' = FALSE
    /\ ev' = "tick"
    /\ wasPaused' = paused
    /\ collected' = 0
    /\ caller' = "tick"
    /\ pc' = "updateTabs"
    /\ UNCHANGED <<checksPaused, paused, inFlight, primed>>
    /\ UNCHANGED <<exitCode, searchVars, sessionVars, netVars>>

\* case e := <-uiEvents, "q" or "<C-c>": return, and the deferred closeUI
Quit ==
    /\ pc = "select"
    /\ \E e \in {"q", "<C-c>"} : ev' = e
    /\ wasPaused' = paused
    /\ collected' = 0
    /\ pc' = "closed"
    /\ UNCHANGED <<caller, checksPaused, paused, ticker, missed, inFlight, primed>>
    /\ UNCHANGED <<exitCode, searchVars, sessionVars, netVars>>

\* "<Space>" or "p": paused = !paused, then Event(e) and updateUI
TogglePause ==
    /\ pc = "select"
    /\ \E e \in {"<Space>", "p"} : ev' = e
    /\ wasPaused' = paused
    /\ collected' = 0
    /\ paused' = ~paused
    /\ UNCHANGED <<pc, caller, checksPaused, ticker, missed, inFlight, primed>>
    /\ UNCHANGED <<exitCode, searchVars, sessionVars, netVars>>

\* "f": updateUI, then updateTabs
ForceRefresh ==
    /\ pc = "select"
    /\ ev' = "f"
    /\ wasPaused' = paused
    /\ collected' = 0
    /\ caller' = "f"
    /\ pc' = "updateTabs"
    /\ UNCHANGED <<checksPaused, paused, ticker, missed, inFlight, primed>>
    /\ UNCHANGED <<exitCode, searchVars, sessionVars, netVars>>

\* "<Resize>", "<Left>", "<Right>" and the keys main does not know: the grid
\* or the tabs take the event, then Event(e) and updateUI
OtherEvent ==
    /\ pc = "select"
    /\ \E e \in Events \ {"q", "<C-c>", "<Space>", "p", "f"} : ev' = e
    /\ wasPaused' = paused
    /\ collected' = 0
    /\ UNCHANGED <<pc, caller, checksPaused, paused, ticker, missed, inFlight, primed>>
    /\ UNCHANGED <<exitCode, searchVars, sessionVars, netVars>>

-----------------------------------------------------------------------------
(* A session file recorded and then replayed                                *)

\* what the recorder and the player leave alone
SessionFrame ==
    UNCHANGED <<pc, exitCode, recordFile, replayFile, searchVars, loopVars, netVars>>

\* record.New(): the session file is created
SessionNew ==
    /\ pc = "session"
    /\ ~session.exists
    /\ recorder' = [active |-> TRUE]
    /\ session' = NewSession
    /\ UNCHANGED <<player, recorded, replays>>
    /\ SessionFrame

\* the recorder is handed one more snapshot
SessionAppend ==
    /\ pc = "session"
    /\ recorder.active
    /\ Len(session.entries) < MaxSamples
    /\ \E s \in Snapshots :
          /\ session' = RecorderAppend(session, s)
          /\ recorded' = Append(recorded, s)
    /\ UNCHANGED <<recorder, player, replays>>
    /\ SessionFrame

\* the recording session ends
SessionClose ==
    /\ pc = "session"
    /\ recorder.active
    /\ session' = RecorderClose(session)
    /\ recorder' = NoRecorder
    /\ UNCHANGED <<player, recorded, replays>>
    /\ SessionFrame

\* record.Load(replayFile) of a later run, once the player of the run before
\* has reached the end of the session
SessionLoad ==
    /\ pc = "session"
    /\ ~recorder.active
    /\ Loadable(session)
    /\ ~player.active \/ player.done
    /\ Len(replays) < MaxReplays
    /\ player' = PlayerLoad(session)
    /\ replays' = Append(replays, [got |-> <<>>, calls |-> 0, ended |-> FALSE])
    /\ UNCHANGED <<recorder, session, recorded>>
    /\ SessionFrame

\* one call of next()
SessionNext ==
    /\ pc = "session"
    /\ player.active /\ ~player.done
    /\ player' = PlayerNext(player)
    /\ replays' = [replays EXCEPT ![Len(replays)] =
            IF PlayerAtEnd(player)
            THEN [@ EXCEPT !.calls = @ + 1, !.ended = TRUE]
            ELSE [@ EXCEPT !.calls = @ + 1, !.got = Append(@, PlayerCurrent(player))]]
    /\ UNCHANGED <<recorder, session, recorded>>
    /\ SessionFrame

-----------------------------------------------------------------------------
(* Specifications of the command                                            *)

NetIdle ==
    /\ procNet = [q \in {protocols[i] : i \in 1..Len(protocols)} |-> NoFile]
    /\ proto = ""
    /\ scanned = Pending
    /\ inodes = Pending
    /\ line = <<>>
    /\ entry = Pending

SearchIdle ==
    /\ targetName = <<>>
    /\ TargetPID = 1
    /\ procs = <<>>
    /\ allProcsFails = FALSE
    /\ printed = <<>>

SessionIdle ==
    /\ recordFile = ""
    /\ replayFile = ""
    /\ recorder = NoRecorder
    /\ player = NoPlayer
    /\ session = NoSession
    /\ recorded = <<>>
    /\ replays = <<>>

LoopIdle ==
    /\ checksPaused = FALSE
    /\ paused = FALSE
    /\ ticker = 0
    /\ missed = FALSE
    /\ caller = "prime"
    /\ ev = "none"
    /\ wasPaused = FALSE
    /\ collected = 0
    /\ inFlight = 0
    /\ primed = 0

MainIdle ==
    /\ pc = "idle"
    /\ exitCode = NoExit
    /\ SearchIdle
    /\ SessionIdle
    /\ LoopIdle

\* main from flag.Parse to the end of start-up
InitSearch ==
    /\ pc = "flags"
    /\ exitCode = NoExit
    /\ targetName \in TargetNames
    /\ TargetPID \in PidFlags
    /\ procs \in ProcLists
    /\ allProcsFails \in BOOLEAN
    /\ printed = <<>>
    /\ SessionIdle
    /\ LoopIdle
    /\ NetIdle

NextSearch ==
    \/ searchTarget
    \/ Startup

SpecSearch == InitSearch /\ [][NextSearch]_vars

\* the session files a run can find on disk
SessionsOnDisk ==
    {NoSession,
     [exists |-> TRUE, closed |-> FALSE, entries |-> <<[ts |-> 1, snap |-> "a"]>>],
     [exists |-> TRUE, closed |-> TRUE, entries |-> <<>>],
     [exists |-> TRUE, closed |-> TRUE,
      entries |-> <<[ts |-> 1, snap |-> "a"], [ts |-> 2, snap |-> "b"]>>]}

\* main from the return of searchTarget on
InitMain ==
    /\ pc = "searched"
    /\ exitCode = NoExit
    /\ SearchIdle
    /\ recordFile \in {"", "out.rec"}
    /\ replayFile \in {"", "in.rec"}
    /\ session \in SessionsOnDisk
    /\ recorder = NoRecorder
    /\ player = NoPlayer
    /\ recorded = <<>>
    /\ replays = <<>>
    /\ checksPaused \in BOOLEAN
    /\ paused = FALSE
    /\ ticker = 0
    /\ missed = FALSE
    /\ caller = "prime"
    /\ ev = "none"
    /\ wasPaused = FALSE
    /\ collected = 0
    /\ inFlight = 0
    /\ primed = 0
    /\ NetIdle

NextMain ==
    \/ Startup
    \/ UpdateTabsPaused
    \/ UpdateTabsBegin
    \/ UpdateTabsEnd
    \/ Tick
    \/ RecvTick
    \/ Quit
    \/ TogglePause
    \/ ForceRefresh
    \/ OtherEvent

SpecMain == InitMain /\ [][NextMain]_vars

\* a session recorded, closed and replayed
InitSession ==
    /\ pc = "session"
    /\ exitCode = NoExit
    /\ SearchIdle
    /\ SessionIdle
    /\ LoopIdle
    /\ NetIdle

NextSession ==
    \/ SessionNew
    \/ SessionAppend
    \/ SessionClose
    \/ SessionLoad
    \/ SessionNext

SpecSession == InitSession /\ [][NextSession]_vars

-----------------------------------------------------------------------------
(* Properties of the command                                                *)

\* the IDs of the processes whose name contains the name searched for
Matching ==
    {procs[i].PID : i \in {j \in 1..Len(procs) :
        procs[j].comm # <<>> /\ Contains(procs[j].comm, targetName)}}

Ascending(s) == \A i, j \in 1..Len(s) : i < j => s[i] < s[j]

\* C9: after a search by name, no match is an exit with a non-zero code;
\* several matches are listed in ascending order of process ID and the
\* process exits; one match becomes the target; and when searchTarget has
\* returned the target PID is positive. After an exit main goes no further.
C9_SearchNeverGuesses ==
    /\ (pc # "flags" /\ targetName # <<>> /\ ~allProcsFails) =>
          /\ Matching = {} => (pc = "exited" /\ exitCode \notin {NoExit, 0})
          /\ Cardinality(Matching) >= 2 =>
                /\ pc = "exited"
                /\ Ascending(printed)
                /\ {printed[i] : i \in 1..Len(printed)} = Matching
          /\ Cardinality(Matching) = 1 => TargetPID \in Matching
    /\ pc \in {"searched", "updateTabs"} => TargetPID > 0

\* several matches were listed, and procfs.AllProcs had returned them in
\* another order than the ascending one
C9_Witness ==
    /\ pc = "exited"
    /\ Len(printed) >= 2
    /\ MatchPIDs(procs, targetName) # printed

\* C1: an event received while paused leaves the session paused; handling
\* "f" has then made exactly one collection cycle, handling a tick none.
C1_PausedForceRefreshOnly ==
    (pc = "select" /\ wasPaused /\ ev \in {"f", "tick"}) =>
        /\ paused
        /\ collected = IF ev = "f" THEN 1 ELSE 0

\* C2: at most one collection cycle is in flight, and at most one tick waits
\* in the ticker's channel, whatever the number of ticks that fired.
C2_OneCollectionInFlight ==
    /\ inFlight <= 1
    /\ ticker <= 1

\* a collection started by a tick is running, one tick waits and a further
\* tick has been dropped
C2_Witness ==
    /\ pc = "collecting"
    /\ caller = "tick"
    /\ inFlight = 1
    /\ ticker = 1
    /\ missed

\* C6: the recorder and the player are never both active, with -record the
\* player is never loaded, and after start-up neither of them changes.
C6_RecordOrReplay ==
    /\ [](/\ ~(recorder.active /\ player.active)
          /\ recordFile # "" => ~player.active)
    /\ [][pc # "searched" =>
            (recorder'.active = recorder.active /\ player'.active = player.active)]_vars

\* both flags were given, and the session runs with the recorder, which has
\* been handed two snapshots
C6_Witness ==
    /\ recordFile # "" /\ replayFile # ""
    /\ pc = "select"
    /\ recorder.active
    /\ Len(session.entries) >= 2

\* C7: a replay returns the recorded snapshots in the recorded order, no more
\* and no fewer, and the call after the last one signals the end; this is so
\* for every replay of the file.
C7_ReplayEqualsRecording ==
    \A k \in 1..Len(replays) :
        LET r == replays[k]
        IN  IF r.ended
            THEN r.got = recorded /\ r.calls = Len(recorded) + 1
            ELSE /\ Len(r.got) <= Len(recorded)
                 /\ r.got = SubSeq(recorded, 1, Len(r.got))
                 /\ r.calls = Len(r.got)

\* three snapshots, not all alike, were recorded and replayed twice to the end
C7_Witness ==
    /\ Len(recorded) = 3
    /\ recorded[1] # recorded[2]
    /\ Len(replays) = 2
    /\ replays[1].ended /\ replays[2].ended

-----------------------------------------------------------------------------
(* Inputs of the parser                                                     *)

MaxLines == 3   \* lines of a table file handed to parseNetworkForProtocol
MaxRows == 3    \* table rows and missing files handed to parseNetworkInodes

Families == {protocols[i] : i \in 1..Len(protocols)}

\* data lines of a family's table: well-formed ones and malformed ones
DataLines(p) ==
    IF p = "unix" THEN {unixPath, unixNoPath, unixSeq, unixShort, blank}
    ELSE IF p = "netlink" THEN {nlA, nlB, nlC, nlShort, blank}
    ELSE {ipListen, ipEstab, ipUnknown, ipShort, ipNoColon, blank}

\* the files parseNetworkForProtocol is run on: any line may come first
ScanFiles(p) ==
    {NoFile} \cup {File(ls) : ls \in SeqsUpTo(DataLines(p) \cup {header}, MaxLines)}

\* one row of the tables parseNetworkInodes is run on: a data line of a
\* family, or the mark that the family's file is missing
InodeLines(p) ==
    IF p = "unix" THEN {unixPath, unixNoPath, unixSeq, unixShort}
    ELSE IF p = "netlink" THEN {nlA, nlB, nlC, nlShort}
    ELSE {ipListen, ipEstab, ipUnknown, ipShort}

Rows ==
    UNION {{[fam |-> p, missing |-> TRUE, text |-> <<>>]}
           \cup {[fam |-> p, missing |-> FALSE, text |-> l] : l \in InodeLines(p)}
           : p \in Families}

\* the place of a family in protocols
FamilyIndex(p) == CHOOSE i \in 1..Len(protocols) : protocols[i] = p

\* rows listed family after family; the order of the rows of one family is
\* the order of its lines, the order of two families' rows changes nothing
FamilyOrdered(rows) ==
    \A k \in 1..(Len(rows) - 1) : FamilyIndex(rows[k].fam) <= FamilyIndex(rows[k + 1].fam)

\* the text of the rows of family p, in order
RECURSIVE TextsOf(_, _, _, _)
TextsOf(rows, p, k, acc) ==
    IF k > Len(rows) THEN acc
    ELSE TextsOf(rows, p, k + 1,
                 IF rows[k].fam = p /\ ~rows[k].missing
                 THEN Append(acc, rows[k].text) ELSE acc)

\* the directory the rows describe: a header and the family's rows, or no file
TablesOf(rows) ==
    [p \in Families |->
        IF \E k \in 1..Len(rows) : rows[k].fam = p /\ rows[k].missing
        THEN NoFile
        ELSE File(TextsOf(rows, p, 1, <<header>>))]

\* words separated by single spaces, after two leading spaces
RECURSIVE JoinWords(_, _, _)
JoinWords(ws, k, acc) ==
    IF k > Len(ws) THEN acc
    ELSE JoinWords(ws, k + 1, acc \o <<" ">> \o ws[k])

\* the columns of a /proc/net/tcp line with the given addresses and state
IPColumns(local, remote, st, ino) ==
    <<<<"0", ":">>, local, remote, st, <<"0", ":", "0">>, <<"0", ":", "0">>,
      <<"0">>, <<"1", "0", "0", "0">>, <<"0">>, ino, <<"1">>, <<"0">>>>

LocalColumns ==
    {<<"0", "1", "0", "0", "0", "0", "7", "F", ":", "1", "3", "A", "D">>,
     <<"0", "2", "0", "1", "A", "8", "C", "0", ":", "0", "0", "5", "0">>,
     <<"0", "0", "0", "0", "0", "0", "0", "0", ":", "F", "F", "F", "F">>}

RemoteColumns ==
    {<<"0", "0", "0", "0", "0", "0", "0", "0", ":", "0", "0", "0", "0">>,
     <<"0", "8", "0", "8", "0", "8", "0", "8", ":", "0", "1", "B", "B">>}

StateColumns == {<<a, HexDigits[k]>> : a \in {"0", "1"}, k \in 1..16}

InodeColumns == {<<"5">>, <<"1", "8", "0", "8", "3", "2", "2", "2">>}

ColumnCounts == {9, 10, 12}

-----------------------------------------------------------------------------
(* Specifications of the parser                                             *)

\* parseNetworkForProtocol on one family's file
InitScan ==
    /\ \E p \in Families : \E f \in ScanFiles(p) :
          /\ proto = p
          /\ procNet = [q \in Families |-> IF q = p THEN f ELSE NoFile]
    /\ scanned = Pending
    /\ inodes = Pending
    /\ line = <<>>
    /\ entry = Pending
    /\ MainIdle

ParseNetworkForProtocol ==
    /\ scanned = Pending
    /\ scanned' = parseNetworkForProtocol(procNet, proto)
    /\ UNCHANGED <<procNet, proto, inodes, line, entry, mainVars>>

NextScan == ParseNetworkForProtocol

SpecScan == InitScan /\ [][NextScan]_vars

\* parseNetworkInodes on the six tables
InitInodes ==
    /\ \E rows \in SeqsUpTo(Rows, MaxRows) :
          FamilyOrdered(rows) /\ procNet = TablesOf(rows)
    /\ proto = ""
    /\ scanned = Pending
    /\ inodes = Pending
    /\ line = <<>>
    /\ entry = Pending
    /\ MainIdle

ParseNetworkInodes ==
    /\ inodes = Pending
    /\ inodes' = parseNetworkInodes(procNet)
    /\ UNCHANGED <<procNet, proto, scanned, line, entry, mainVars>>

NextInodes == ParseNetworkInodes

SpecInodes == InitInodes /\ [][NextInodes]_vars

\* parseIP on one line of /proc/net/tcp
InitDecode ==
    /\ \E local \in LocalColumns, remote \in RemoteColumns, st \in StateColumns,
          ino \in InodeColumns, n \in ColumnCounts :
          line = JoinWords(SubSeq(IPColumns(local, remote, st, ino), 1, n), 1, <<" ">>)
    /\ proto = "tcp"
    /\ procNet = [q \in Families |-> NoFile]
    /\ scanned = Pending
    /\ inodes = Pending
    /\ entry = Pending
    /\ MainIdle

ParseIP ==
    /\ entry = Pending
    /\ entry' = parseIP(Filename(proto), line, proto)
    /\ UNCHANGED <<procNet, proto, scanned, inodes, line, mainVars>>

NextDecode == ParseIP

SpecDecode == InitDecode /\ [][NextDecode]_vars

-----------------------------------------------------------------------------
(* Properties of the parser                                                 *)

\* the least number of columns a data line of the family must have
MinColumns(p) == IF p = "unix" THEN 7 ELSE 10

\* a data line with fewer columns than its family needs
TooShort(p, l) == Len(Fields(l)) < MinColumns(p)

\* a data line its family's decoder accepts: enough columns and, for the
\* IP-based families, address columns of the form address:port
WellFormed(p, l) ==
    /\ ~TooShort(p, l)
    /\ p \notin {"unix", "netlink"} =>
          /\ \E k \in 1..Len(Fields(l)[2]) : Fields(l)[2][k] = ":"
          /\ \E k \in 1..Len(Fields(l)[3]) : Fields(l)[3][k] = ":"

\* the data lines of a file: every line but the first
DataOf(f) == IF Len(f.lines) < 2 THEN <<>> ELSE Tail(f.lines)

\* the record a data line of family p stands for
RecordOf(p, l) ==
    CASE p = "unix" -> parseUnix(Filename(p), l, p).entry
      [] p = "netlink" -> parseNetlink(Filename(p), l, p).entry
      [] OTHER -> parseIP(Filename(p), l, p).entry

\* the records of all tables, family after family in the order of protocols
RECURSIVE RecordsFrom(_, _)
RecordsFrom(fs, i) ==
    IF i > Len(protocols) THEN <<>>
    ELSE [k \in 1..Len(DataOf(fs[protocols[i]])) |->
             RecordOf(protocols[i], DataOf(fs[protocols[i]])[k])]
         \o RecordsFrom(fs, i + 1)

AllRecords == RecordsFrom(procNet, 1)

HasIndex(r) == "byInode" \in DOMAIN r

\* C3: when parseNetworkInodes returns an index, its keys are the inodes of
\* the records of all tables, and each inode maps to the last record carrying
\* it, in the order tcp, tcp6, udp, udp6, unix, netlink and then file order.
C3_LastRecordWins ==
    inodes.kind = "ok" =>
        LET all == AllRecords
        IN  /\ DOMAIN inodes.byInode = {all[k].INode : k \in 1..Len(all)}
            /\ \A k \in 1..Len(all) :
                  (\A j \in (k + 1)..Len(all) : all[j].INode # all[k].INode)
                      => inodes.byInode[all[k].INode] = all[k]

\* an index was built from tables in which one inode occurs in two families
\* and one inode occurs twice in one family, with different records
C3_Witness ==
    /\ inodes.kind = "ok"
    /\ LET all == AllRecords
       IN  /\ \E k, j \in 1..Len(all) :
                 k < j /\ all[k].INode = all[j].INode /\ all[k].Proto # all[j].Proto
           /\ \E k, j \in 1..Len(all) :
                 k < j /\ all[k].INode = all[j].INode /\ all[k].Proto = all[j].Proto
                       /\ all[k] # all[j]

\* the first family, in the order of protocols, whose file is missing (0: none)
FirstMissing ==
    IF \A i \in 1..Len(protocols) : procNet[protocols[i]].exists
    THEN 0
    ELSE CHOOSE i \in 1..Len(protocols) :
            /\ ~procNet[protocols[i]].exists
            /\ \A j \in 1..(i - 1) : procNet[protocols[j]].exists

\* every data line of the families before the i-th is well-formed
CleanBefore(i) ==
    \A j \in 1..(i - 1) :
        \A k \in 1..Len(DataOf(procNet[protocols[j]])) :
            WellFormed(protocols[j], DataOf(procNet[protocols[j]])[k])

\* C4: when the scan of a family returns an error, parseNetworkInodes returns
\* that error and no index, and has opened that family and the ones before it
\* only; and it returns an error only in that case.
C4_AllOrNothing ==
    inodes # Pending =>
        /\ (FirstMissing # 0 /\ CleanBefore(FirstMissing)) =>
              /\ inodes.kind = "err"
              /\ inodes.err = OpenError(protocols[FirstMissing])
              /\ ~HasIndex(inodes)
              /\ inodes.opened = SubSeq(protocols, 1, FirstMissing)
        /\ inodes.kind = "err" => (FirstMissing # 0 /\ ~HasIndex(inodes))

\* an error was returned after a family with records had been scanned, while
\* a later family's file is missing as well
C4_Witness ==
    /\ inodes.kind = "err"
    /\ FirstMissing > 1
    /\ \E j \in 1..(FirstMissing - 1) : DataOf(procNet[protocols[j]]) # <<>>
    /\ \E j \in (FirstMissing + 1)..Len(protocols) : ~procNet[protocols[j]].exists

\* C5: a file with a data line of too few columns makes parseNetworkForProtocol
\* return an error to its caller, with no records.
C5_MalformedLineIsAnError ==
    (scanned # Pending /\ procNet[proto].exists
        /\ \E k \in 1..Len(DataOf(procNet[proto])) :
              TooShort(proto, DataOf(procNet[proto])[k]))
    => /\ scanned.kind = "err"
       /\ "entries" \notin DOMAIN scanned

\* C10: a file whose data lines are all well-formed gives one record per data
\* line, in file order, decoded by the family's decoder; the first line is
\* skipped whatever it is; a file of at most one line gives no record.
C10_OneRecordPerDataLine ==
    (scanned # Pending /\ procNet[proto].exists
        /\ \A k \in 1..Len(DataOf(procNet[proto])) :
              WellFormed(proto, DataOf(procNet[proto])[k]))
    => /\ scanned.kind = "ok"
       /\ Len(scanned.entries) = Len(DataOf(procNet[proto]))
       /\ \A k \in 1..Len(scanned.entries) :
             scanned.entries[k] = RecordOf(proto, Trim(procNet[proto].lines[k + 1]))

\* two records were returned from a file whose first line is no header and
\* would not decode
C10_Witness ==
    /\ scanned.kind = "ok"
    /\ Len(scanned.entries) >= 2
    /\ procNet[proto].lines[1] # header
    /\ ~WellFormed(proto, procNet[proto].lines[1])

\* the line of the scenario: local 0100007F:13AD, remote 00000000:0000, state 0A
IsScenarioLine(l) ==
    /\ Len(Fields(l)) >= 10
    /\ Fields(l)[2] = <<"0", "1", "0", "0", "0", "0", "7", "F", ":", "1", "3", "A", "D">>
    /\ Fields(l)[3] = <<"0", "0", "0", "0", "0", "0", "0", "0", ":", "0", "0", "0", "0">>
    /\ Fields(l)[4] = <<"0", "A">>

\* the scenario line decoded, with the given state label
ScenarioDecoded(label) ==
    /\ entry.kind = "ok"
    /\ entry.entry.SrcIP = <<127, 0, 0, 1>>
    /\ entry.entry.SrcPort = 5037
    /\ entry.entry.DstIP = <<0, 0, 0, 0>>
    /\ entry.entry.DstPort = 0
    /\ entry.entry.StateString = label

\* the state label follows the table, and a code outside it gives ""
LabelFollowsTable ==
    (entry # Pending /\ Len(Fields(line)) >= 10) =>
        /\ entry.kind = "ok"
        /\ LET code == hexToInt(Fields(line)[4])
           IN  /\ entry.entry.State = code
               /\ code \in DOMAIN sockStates => entry.entry.StateString = sockStates[code]
               /\ code \notin DOMAIN sockStates => entry.entry.StateString = ""

\* C8 as stated: the scenario line decodes to 127.0.0.1:5037, 0.0.0.0:0 and
\* the state label LISTEN, and labels follow the table.
C8_ScenarioListen ==
    /\ (entry # Pending /\ IsScenarioLine(line)) => ScenarioDecoded("LISTEN")
    /\ LabelFollowsTable

\* C8 amended: the scenario line decodes to 127.0.0.1:5037, 0.0.0.0:0 and the
\* state label LISTENING, and labels follow the table.
C8_ScenarioListening ==
    /\ (entry # Pending /\ IsScenarioLine(line)) => ScenarioDecoded("LISTENING")
    /\ LabelFollowsTable

\* the scenario line was decoded, and its state code is TCP_LISTEN
C8_Witness ==
    /\ entry # Pending
    /\ IsScenarioLine(line)
    /\ entry.entry.State = TCP_LISTEN

=============================================================================
